---- MODULE Spec2Model ----
(***************************************************************************)
(* Model of the trackball crate: Plane, Frame, Delta, Bound, the gliding   *)
(* clamp loop of Clamp::compute and the Orbit gesture handler.             *)
(*                                                                         *)
(* Scalars of the generic field N are exact rationals <<num, den>> in      *)
(* lowest terms with den > 0.  Rotations are 3x3 integer matrices of the   *)
(* cube group (quarter turns about the coordinate axes), on which every    *)
(* quaternion product, inverse and axis-angle construction of the source   *)
(* is exact.  Angles are integers counting quarter turns.                  *)
(***************************************************************************)
EXTENDS Integers, Sequences, FiniteSets, TLC

(***************************************************************************)
(* State.                                                                  *)
(*   frame, scope, clamp, delta  arguments of the Clamp::compute call      *)
(*   pc         "call" before the match, "loop" inside the revalidation    *)
(*              loop, "done" after the return                              *)
(*   min_delta, loops, rat       the locals of Clamp::compute              *)
(*   ret        the returned Option<(Delta, usize)>                        *)
(*   iters      number of executions of the loop body in this call         *)
(*   probes     number of probe evaluations in this call                   *)
(*   vec        Orbit::vec, the cached (ray, len) of the gesture           *)
(*   rot        the Option<UnitQuaternion> of the last Orbit::compute      *)
(*   last       the last Orbit operation with its arguments                *)
(*   this       the Frame a method of Frame or Delta is called with        *)
(*   call       the last such call: its name, arguments and results        *)
(*   touch      the fields pos, vec, tap and mvs of a Touch                *)
(*   event      the last Touch operation with its arguments and result     *)
(***************************************************************************)
VARIABLES frame, scope, clamp, delta, pc, min_delta, loops, rat, ret, iters,
          probes, vec, rot, last, this, call, touch, event

clampVars == <<frame, scope, clamp, delta, pc, min_delta, loops, rat, ret, iters, probes>>
orbitVars == <<vec, rot, last>>
frameVars == <<this, call>>
touchVars == <<touch, event>>
vars == <<frame, scope, clamp, delta, pc, min_delta, loops, rat, ret, iters,
          probes, vec, rot, last, this, call, touch, event>>

None == [none |-> TRUE]
\* The element of a singleton: The({e(x) : x \in {v}}) is e(v), with v
\* evaluated once.
The(S) == CHOOSE x \in S : TRUE

(***************************************************************************)
(* Bounds of the model.                                                    *)
(***************************************************************************)
\* Largest absolute coordinate of input positions and slide vectors.
MaxCoord == 2
\* Half the width of the widest screen of the Orbit inputs.
HalfScreen == 2

(***************************************************************************)
(* Rational arithmetic of the scalar field N.                              *)
(***************************************************************************)
Abs(i) == IF i < 0 THEN -i ELSE i

RECURSIVE Gcd(_, _)
Gcd(a, b) == IF b = 0 THEN a ELSE Gcd(b, a % b)

RNorm(n, d) ==
    LET g == Gcd(Abs(n), Abs(d))
        s == IF d < 0 THEN -1 ELSE 1
    IN  <<(s * n) \div g, (s * d) \div g>>

R(i) == <<i, 1>>
RZero == R(0)
ROne == R(1)
\* Scalars with denominator 1 are added and multiplied as integers.
RAdd(a, b) ==
    IF a[2] * b[2] = 1 THEN <<a[1] + b[1], 1>>
    ELSE RNorm(a[1] * b[2] + b[1] * a[2], a[2] * b[2])
RNeg(a) == <<-a[1], a[2]>>
RSub(a, b) ==
    IF a[2] * b[2] = 1 THEN <<a[1] - b[1], 1>>
    ELSE RNorm(a[1] * b[2] - b[1] * a[2], a[2] * b[2])
RMul(a, b) ==
    IF a[2] * b[2] = 1 THEN <<a[1] * b[1], 1>>
    ELSE RNorm(a[1] * b[1], a[2] * b[2])
\* Division by zero yields no finite scalar; callers guard b # 0.
RDiv(a, b) == RNorm(a[1] * b[2], a[2] * b[1])
RLt(a, b) == a[1] * b[2] < b[1] * a[2]
RLe(a, b) == a[1] * b[2] <= b[1] * a[2]
RGt(a, b) == RLt(b, a)
RAbs(a) == <<Abs(a[1]), a[2]>>

\* Floating-point rounding.  Scalars are exact rationals; the results the
\* code compares without hysteresis (the eye-target distance and the ratio
\* of a Scale) are rounded to the nearest scalar of Mantissa significant
\* bits, ties to even, as the operations of f32 and f64 are.  Mantissa is
\* scaled down such that the machine epsilon 2^(1 - Mantissa) has the
\* square root 1/8.
Mantissa == 7
\* r * 2^k
Scale2(r, k) == IF k >= 0 THEN RNorm(r[1] * 2 ^ k, r[2]) ELSE RNorm(r[1], r[2] * 2 ^ (-k))
Exponents == -12..12
\* The exponent e of a positive scalar: 2^e <= r < 2^(e + 1).
Exponent(r) ==
    CHOOSE e \in Exponents : RLe(ROne, Scale2(r, -e)) /\ RLt(Scale2(r, -e), R(2))
\* The integer nearest to a positive scalar, ties to even.
RoundEven(q) ==
    LET n == q[1] \div q[2]
        rem2 == 2 * (q[1] % q[2])
    IN  IF rem2 > q[2] \/ (rem2 = q[2] /\ n % 2 = 1) THEN n + 1 ELSE n
Fl(r) ==
    IF r[1] = 0 THEN r
    ELSE LET a == RAbs(r)
             e == Exponent(a)
             m == RoundEven(Scale2(a, Mantissa - 1 - e))
             v == Scale2(R(m), e - Mantissa + 1)
         IN  IF r[1] < 0 THEN RNeg(v) ELSE v

(***************************************************************************)
(* Vectors and points: triples of scalars.  Rotations: triples of rows of  *)
(* integers.                                                               *)
(***************************************************************************)
V(x, y, z) == <<R(x), R(y), R(z)>>
Origin == V(0, 0, 0)
XAxis == V(1, 0, 0)
YAxis == V(0, 1, 0)
ZAxis == V(0, 0, 1)
VAdd(a, b) == <<RAdd(a[1], b[1]), RAdd(a[2], b[2]), RAdd(a[3], b[3])>>
VSub(a, b) == <<RSub(a[1], b[1]), RSub(a[2], b[2]), RSub(a[3], b[3])>>
VNeg(a) == <<RNeg(a[1]), RNeg(a[2]), RNeg(a[3])>>
VScale(a, r) == <<RMul(a[1], r), RMul(a[2], r), RMul(a[3], r)>>
VDot(a, b) == RAdd(RAdd(RMul(a[1], b[1]), RMul(a[2], b[2])), RMul(a[3], b[3]))
VCross(a, b) ==
    << RSub(RMul(a[2], b[3]), RMul(a[3], b[2])),
       RSub(RMul(a[3], b[1]), RMul(a[1], b[3])),
       RSub(RMul(a[1], b[2]), RMul(a[2], b[1])) >>

Identity == << <<1, 0, 0>>, <<0, 1, 0>>, <<0, 0, 1>> >>
\* rot * vec
RowDot(row, v) ==
    RAdd(RAdd(RMul(R(row[1]), v[1]), RMul(R(row[2]), v[2])), RMul(R(row[3]), v[3]))
Rotate(m, v) == <<RowDot(m[1], v), RowDot(m[2], v), RowDot(m[3], v)>>
\* a * b (apply b first)
RotEntry(a, b, i, j) == a[i][1] * b[1][j] + a[i][2] * b[2][j] + a[i][3] * b[3][j]
RotRow(a, b, i) == <<RotEntry(a, b, i, 1), RotEntry(a, b, i, 2), RotEntry(a, b, i, 3)>>
RotMul(a, b) == <<RotRow(a, b, 1), RotRow(a, b, 2), RotRow(a, b, 3)>>
\* rot.inverse(): the transpose of an orthogonal matrix.
RotInverse(m) ==
    << <<m[1][1], m[2][1], m[3][1]>>,
       <<m[1][2], m[2][2], m[3][2]>>,
       <<m[1][3], m[2][3], m[3][3]>> >>

\* cos and sin of k quarter turns.
CosQ(k) == CASE k % 4 = 0 -> 1 [] k % 4 = 2 -> -1 [] OTHER -> 0
SinQ(k) == CASE k % 4 = 1 -> 1 [] k % 4 = 3 -> -1 [] OTHER -> 0

\* UnitQuaternion::from_axis_angle for a coordinate axis and k quarter turns
\* (Rodrigues: v cos + (a x v) sin + a (a.v) (1 - cos)).
AxisAngleApply(axis, k, e) ==
    VAdd(VAdd(VScale(e, R(CosQ(k))), VScale(VCross(axis, e), R(SinQ(k)))),
         VScale(axis, RMul(VDot(axis, e), R(1 - CosQ(k)))))
FromAxisAngle(axis, k) ==
    LET cx == AxisAngleApply(axis, k, <<ROne, RZero, RZero>>)
        cy == AxisAngleApply(axis, k, <<RZero, ROne, RZero>>)
        cz == AxisAngleApply(axis, k, <<RZero, RZero, ROne>>)
    IN  << <<cx[1][1], cy[1][1], cz[1][1]>>,
           <<cx[2][1], cy[2][1], cz[2][1]>>,
           <<cx[3][1], cy[3][1], cz[3][1]>> >>

(***************************************************************************)
(* Plane (plane.rs).                                                       *)
(***************************************************************************)
\* PlaneNew that stores the distance as the bias.
PlaneNewBias(normal, distance) == [normal |-> normal, bias |-> distance]

\* Plane::new
PlaneNew(normal, distance) == [normal |-> normal, bias |-> RNeg(distance)]
PlaneDistance(plane) == RNeg(plane.bias)
DistanceFrom(plane, point) == RSub(PlaneDistance(plane), VDot(plane.normal, point))
\* ProjectVector without the bias of the plane.
ProjectVectorNoBias(plane, vector) ==
    VSub(vector, VScale(plane.normal, VDot(plane.normal, vector)))

ProjectVector(plane, vector) ==
    VSub(vector, VScale(plane.normal, RAdd(VDot(plane.normal, vector), plane.bias)))
ProjectPoint(plane, point) == ProjectVector(plane, point)

(***************************************************************************)
(* Frame (frame.rs): [pos, rot, zat].                                      *)
(***************************************************************************)
Eye(f) == VAdd(f.pos, VScale(Rotate(f.rot, ZAxis), f.zat))
Target(f) == f.pos
Distance(f) == f.zat
Scale(f, ratio) == [f EXCEPT !.zat = Fl(RMul(f.zat, ratio))]
LocalSlide(f, v) == [f EXCEPT !.pos = VAdd(f.pos, Rotate(f.rot, v))]
Slide(f, v) == [f EXCEPT !.pos = VAdd(f.pos, v)]
LocalScaleAround(f, ratio, pos) ==
    Scale(LocalSlide(f, VSub(pos, VScale(pos, ratio))), ratio)
LocalOrbit(f, q) == [f EXCEPT !.rot = RotMul(f.rot, q)]
\* local_orbit_around that orbits around the target whatever the pivot.
LocalOrbitAroundTarget(f, q, pos) == LocalOrbit(f, q)
LocalOrbitAround(f, q, pos) ==
    LocalOrbit(LocalSlide(f, VSub(pos, Rotate(q, pos))), q)
OrbitWorld(f, q) == [f EXCEPT !.rot = RotMul(q, f.rot)]
OrbitAround(f, q, pos) ==
    LET rel == VSub(pos, f.pos)
    IN  OrbitWorld(Slide(f, VSub(rel, Rotate(q, rel))), q)
PitchAxis(f) == Rotate(f.rot, XAxis)
YawAxis(f) == Rotate(f.rot, YAxis)
RollAxis(f) == Rotate(f.rot, ZAxis)
\* look_around that orbits around the target instead of the eye.
LookAroundTarget(f, pitch, yaw, yaw_axis) ==
    LET p == FromAxisAngle(PitchAxis(f), pitch)
        y == FromAxisAngle(yaw_axis, yaw)
    IN  OrbitWorld(f, RotMul(y, p))
LookAround(f, pitch, yaw, yaw_axis) ==
    LET p == FromAxisAngle(PitchAxis(f), pitch)
        y == FromAxisAngle(yaw_axis, yaw)
    IN  OrbitAround(f, RotMul(y, p), Eye(f))
\* frame.view().rotation
ViewRotation(f) == f.rot

\* The exact square root of a square, by search.
RECURSIVE Root(_, _)
Root(n, k) == IF k * k >= n THEN k ELSE Root(n, k + 1)
IsSquare(r) == Root(r[1], 0) * Root(r[1], 0) = r[1] /\ Root(r[2], 0) * Root(r[2], 0) = r[2]
\* Vector3::norm of a vector whose squared length is the square of a scalar.
Norm(v) == <<Root(VDot(v, v)[1], 0), Root(VDot(v, v)[2], 0)>>

\* Frame::set_target
SetTarget(f, target) ==
    LET eye == Eye(f)
    IN  [f EXCEPT !.pos = target, !.zat = Norm(VSub(target, eye))]

\* Isometry3 as [rot, trans]: a point p is mapped to rot * p + trans.
IsoFromParts(trans, q) == [rot |-> q, trans |-> trans]
IsoInverse(iso) ==
    [rot |-> RotInverse(iso.rot), trans |-> VNeg(Rotate(RotInverse(iso.rot), iso.trans))]
\* a * b (apply b first)
IsoMul(a, b) == [rot |-> RotMul(a.rot, b.rot), trans |-> VAdd(Rotate(a.rot, b.trans), a.trans)]
IsoIdentity == [rot |-> Identity, trans |-> Origin]
TransformPoint(iso, point) == VAdd(Rotate(iso.rot, point), iso.trans)

\* Frame::view
View(f) == IsoFromParts(Eye(f), f.rot)
\* InverseView that translates by the target instead of the eye.
InverseViewTarget(f) == IsoFromParts(VNeg(Rotate(RotInverse(f.rot), f.pos)), RotInverse(f.rot))

\* Frame::inverse_view
InverseView(f) ==
    LET q == RotInverse(f.rot)
        eye == VAdd(Rotate(q, f.pos), VScale(ZAxis, f.zat))
    IN  IsoFromParts(VNeg(eye), q)

(***************************************************************************)
(* Delta (delta.rs): a record tagged by type.                              *)
(***************************************************************************)
DeltaFrame == [type |-> "Frame"]
DeltaFirst(pitch, yaw, yaw_axis) ==
    [type |-> "First", pitch |-> pitch, yaw |-> yaw, yaw_axis |-> yaw_axis]
DeltaOrbit(q, pos) == [type |-> "Orbit", rot |-> q, pos |-> pos]
DeltaSlide(v) == [type |-> "Slide", vec |-> v]
DeltaScale(ratio, pos) == [type |-> "Scale", rat |-> ratio, pos |-> pos]

Transform(d, f) ==
    CASE d.type = "Frame" -> f
      [] d.type = "First" -> LookAround(f, d.pitch, d.yaw, d.yaw_axis)
      [] d.type = "Orbit" -> LocalOrbitAround(f, d.rot, d.pos)
      [] d.type = "Slide" -> LocalSlide(f, d.vec)
      [] d.type = "Scale" -> LocalScaleAround(f, d.rat, d.pos)

\* Delta::inverse
Inverse(d) ==
    CASE d.type = "Frame" -> DeltaFrame
      [] d.type = "First" -> DeltaFirst(-d.pitch, -d.yaw, d.yaw_axis)
      [] d.type = "Orbit" -> DeltaOrbit(RotInverse(d.rot), d.pos)
      [] d.type = "Slide" -> DeltaSlide(VNeg(d.vec))
      [] d.type = "Scale" -> DeltaScale(RSub(RAdd(ROne, ROne), d.rat), d.pos)

\* UnitQuaternion::angle in quarter turns, within [0, 2], from the trace
\* 1 + 2 cos(angle) of the rotation.
RotAngle(q) ==
    LET trace == q[1][1] + q[2][2] + q[3][3]
    IN  CASE trace = 3 -> RZero
          [] trace = 1 -> ROne
          [] trace = 0 -> RNorm(4, 3)
          [] OTHER -> R(2)
SignedAxes == {XAxis, YAxis, ZAxis, VNeg(XAxis), VNeg(YAxis), VNeg(ZAxis)}
\* UnitQuaternion::axis of a turn about a coordinate axis: None for the
\* identity.
RotAxis(q) ==
    IF RotAngle(q) = RZero THEN None
    ELSE CHOOSE a \in SignedAxes : FromAxisAngle(a, RotAngle(q)[1]) = q
\* The integer a scalar with denominator 1 stands for.
Whole(r) == r[1]
\* UnitQuaternion::powf: the same axis, the angle times t.
Powf(q, t) ==
    IF RotAxis(q) = None THEN Identity
    ELSE FromAxisAngle(RotAxis(q), Whole(RMul(RotAngle(q), t)))

\* LerpSlerp that interpolates the scale ratio from 0 instead of 1.
LerpSlerpRatio(d, t) ==
    CASE d.type = "Frame" -> DeltaFrame
      [] d.type = "First" ->
           DeltaFirst(Whole(RMul(R(d.pitch), t)), Whole(RMul(R(d.yaw), t)), d.yaw_axis)
      [] d.type = "Orbit" -> DeltaOrbit(Powf(d.rot, t), d.pos)
      [] d.type = "Slide" -> DeltaSlide(VScale(d.vec, t))
      [] d.type = "Scale" -> DeltaScale(RMul(d.rat, t), d.pos)

\* Delta::lerp_slerp
LerpSlerp(d, t) ==
    CASE d.type = "Frame" -> DeltaFrame
      [] d.type = "First" ->
           DeltaFirst(Whole(RMul(R(d.pitch), t)), Whole(RMul(R(d.yaw), t)), d.yaw_axis)
      [] d.type = "Orbit" -> DeltaOrbit(Powf(d.rot, t), d.pos)
      [] d.type = "Slide" -> DeltaSlide(VScale(d.vec, t))
      [] d.type = "Scale" -> DeltaScale(RAdd(RMul(RSub(d.rat, ROne), t), ROne), d.pos)

\* Smaller that always takes the first operand.
SmallerFirst(a, b) == a

\* if a.abs() <= b.abs() { a } else { b }
Smaller(a, b) == IF RLe(RAbs(a), RAbs(b)) THEN a ELSE b
\* Delta::minimum: the delta of Some, or None.
Minimum(self, other) ==
    CASE self.type = "Frame" -> other
      [] other.type = "Frame" -> self
      [] self.type = "First" /\ other.type = "First" ->
           DeltaFirst(Whole(Smaller(R(self.pitch), R(other.pitch))),
                      Whole(Smaller(R(self.yaw), R(other.yaw))), self.yaw_axis)
      [] self.type = "Orbit" /\ other.type = "Orbit" ->
           DeltaOrbit(IF RLe(RotAngle(self.rot), RotAngle(other.rot))
                      THEN self.rot ELSE other.rot, self.pos)
      [] self.type = "Slide" /\ other.type = "Slide" ->
           DeltaSlide(<<Smaller(self.vec[1], other.vec[1]),
                        Smaller(self.vec[2], other.vec[2]),
                        Smaller(self.vec[3], other.vec[3])>>)
      [] self.type = "Scale" /\ other.type = "Scale" ->
           DeltaScale(IF RLe(RAbs(RSub(self.rat, ROne)), RAbs(RSub(other.rat, ROne)))
                      THEN self.rat ELSE other.rat, self.pos)
      [] OTHER -> None

(***************************************************************************)
(* Bound (bound.rs) and other implementations of the Clamp trait.          *)
(*                                                                         *)
(* A clamp of kind "Bound" carries the fields of struct Bound; transform   *)
(* is the isometry [rot, trans].  A clamp of kind "Stub" is a Clamp        *)
(* implementation whose probes return the same fixed answer for every      *)
(* frame and that keeps the default loops().                               *)
(***************************************************************************)
\* Stand-in for N::max_value(); N::min_value() is its negation.
NMax == 1000
\* Stand-in for N::default_epsilon().sqrt(): a small positive scalar.
SqrtEpsilon == <<1, 8>>
DefaultLoops == 100
BoundLoops == 10

Splat(r) == <<r, r, r>>
BoundDefault ==
    [ kind |-> "Bound",
      transform |-> [rot |-> Identity, trans |-> Origin],
      hysteresis |-> SqrtEpsilon,
      min_target |-> Splat(R(-NMax)), max_target |-> Splat(R(NMax)),
      min_eye |-> Splat(R(-NMax)), max_eye |-> Splat(R(NMax)),
      min_up |-> Splat(R(-NMax)), max_up |-> Splat(R(NMax)),
      min_distance |-> RZero, max_distance |-> R(NMax) ]

\* self.transform.inverse() * point
InverseTransformPoint(t, point) == Rotate(RotInverse(t.rot), VSub(point, t.trans))

Loops(c) == IF c.kind = "Bound" THEN BoundLoops ELSE DefaultLoops

Axes == <<XAxis, YAxis, ZAxis>>

\* The loop over the three axes shared by Bound::target, Bound::eye and
\* Bound::up: the first exceeded face in the order x-min, x-max, ..., z-max.
RECURSIVE FirstExceeded(_, _, _, _, _, _)
FirstExceeded(i, normals, min, max, point, hysteresis) ==
    IF i > 3 THEN None
    ELSE LET min_plane == PlaneNew(normals[i], min[i])
             max_plane == PlaneNew(normals[i], max[i])
         IN  IF RGt(DistanceFrom(min_plane, point), hysteresis) THEN min_plane
             ELSE IF RLt(DistanceFrom(max_plane, point), RNeg(hysteresis)) THEN max_plane
             ELSE FirstExceeded(i + 1, normals, min, max, point, hysteresis)

\* BoundTarget without hysteresis.
BoundTargetStrict(b, f) ==
    The({ FirstExceeded(1, Axes, b.min_target, b.max_target, target, RZero)
          : target \in {InverseTransformPoint(b.transform, Target(f))} })

\* BoundTarget that looks at the faces of the x-axis only.
BoundTargetOneAxis(b, f) ==
    LET point == InverseTransformPoint(b.transform, Target(f))
        min_plane == PlaneNew(XAxis, b.min_target[1])
        max_plane == PlaneNew(XAxis, b.max_target[1])
    IN  IF RGt(DistanceFrom(min_plane, point), b.hysteresis) THEN min_plane
        ELSE IF RLt(DistanceFrom(max_plane, point), RNeg(b.hysteresis)) THEN max_plane
        ELSE None

\* let target = self.transform.inverse() * frame.target(); then the loop.
BoundTarget(b, f) ==
    The({ FirstExceeded(1, Axes, b.min_target, b.max_target, target, b.hysteresis)
          : target \in {InverseTransformPoint(b.transform, Target(f))} })

\* The distance limits, then let eye = self.transform.inverse() * frame.eye();
\* and the loop.
BoundEye(b, f) ==
    IF RGt(RSub(b.min_distance, Distance(f)), b.hysteresis)
    THEN PlaneNew(RollAxis(f), b.min_distance)
    ELSE IF RLt(RSub(b.max_distance, Distance(f)), RNeg(b.hysteresis))
    THEN PlaneNew(RollAxis(f), b.max_distance)
    ELSE The({ FirstExceeded(1, Axes, b.min_eye, b.max_eye, eye, b.hysteresis)
               : eye \in {InverseTransformPoint(b.transform, Eye(f))} })

\* atan2(x, z) in quarter turns for a coordinate-axis direction.
Atan2Q(x, z) ==
    CASE x = R(1) -> 1
      [] x = R(-1) -> -1
      [] z = R(-1) -> 2
      [] OTHER -> 0

\* let yaw = from_axis_angle(local_yaw_axis, atan2(roll_axis.x, roll_axis.z));
\* let up = yaw * frame.yaw_axis(); then the loop over yaw.inverse() * axis.
UpNormals(yaw) ==
    <<Rotate(RotInverse(yaw), XAxis), Rotate(RotInverse(yaw), YAxis),
      Rotate(RotInverse(yaw), ZAxis)>>
BoundUp(b, f) ==
    The(UNION
        { { FirstExceeded(1, UpNormals(yaw), b.min_up, b.max_up, up, b.hysteresis)
            : up \in {Rotate(yaw, YawAxis(f))} }
          : yaw \in {The({ FromAxisAngle(YAxis, Atan2Q(roll_axis[1], roll_axis[3]))
                           : roll_axis \in {RollAxis(f)} })} })

ProbeTarget(c, f) == IF c.kind = "Bound" THEN BoundTarget(c, f) ELSE c.target
ProbeEye(c, f) == IF c.kind = "Bound" THEN BoundEye(c, f) ELSE c.eye
ProbeUp(c, f) == IF c.kind = "Bound" THEN BoundUp(c, f) ELSE c.up

(***************************************************************************)
(* Scope (scope.rs): [oim, zcp].                                           *)
(***************************************************************************)
ScopeScale(s) == s.oim
ClipPlanes(s, zat) ==
    IF s.oim THEN <<RSub(zat, s.zcp[1]), RAdd(zat, s.zcp[2])>> ELSE s.zcp

(***************************************************************************)
(* Clamp::compute (clamp.rs): the pure parts.                              *)
(***************************************************************************)
Some(d, n) == [delta |-> d, loops |-> n]

\* Blocked for no delta.
BlockedNever(d) == FALSE
\* Blocked for the off-origin pivot of Orbit and of Scale.
BlockedPivot(d) == d.type \in {"Orbit", "Scale"} /\ d.pos # Origin

\* Orbit with pos != origin returns Some((Delta::Frame, 0)) before the loop.
Blocked(d) == d.type = "Orbit" /\ d.pos # Origin

\* Continue without the loop budget.
ContinueUnbounded(bound, n, c) == bound

\* Continue with a budget of one loop more.
ContinueLate(bound, n, c) == bound /\ n # Loops(c) + 1

\* if bound { if loops == self.loops() { break; } loops += 1; } else { break; }
Continue(bound, n, c) == bound /\ n # Loops(c)

\* Result without the comparison with the unmodified delta.
ResultAlways(md, d, n) == Some(md, n)

\* (min_delta != *delta).then_some((min_delta, loops))
Result(md, d, n) == IF md # d THEN Some(md, n) ELSE None

\* if let Some(_plane) = probe { min_delta = Delta::Frame; } that keeps the
\* delta.
FullStopKeep(plane, md) == md

\* if let Some(_plane) = probe { min_delta = Delta::Frame; }: the First
\* branch (its re-derived pitch and yaw are bound to _min_delta and dropped),
\* the up probe of the Orbit branch and the eye probe of the Scale branch.
FullStop(plane, md) == IF plane # None THEN DeltaFrame ELSE md

\* The rotations the spherical-cap construction of the Orbit branch may
\* yield.  The construction takes square roots and leaves the cube group;
\* the model admits any of these rotations as its result.
GlideRots == {Identity, FromAxisAngle(XAxis, 1), FromAxisAngle(YAxis, 1)}

\* The eye probe of the Orbit branch: the deltas min_delta may become.
Glides(plane, d, md) ==
    IF plane # None THEN {DeltaOrbit(q, d.pos) : q \in GlideRots} ELSE {md}

\* The target and the eye probe of the Slide branch: point is projected onto
\* the exceeded plane and the slide from old to it taken to camera space.
SlideOnto(plane, point, old, f0, md) ==
    IF plane # None
    THEN DeltaSlide(Rotate(RotInverse(ViewRotation(f0)),
                           VSub(ProjectPoint(plane, point), old)))
    ELSE md

\* -znear * (1 + sqrt(epsilon)) with znear = scope.clip_planes(0).0
MinZat(s) == Fl(RMul(RNeg(ClipPlanes(s, RZero)[1]), Fl(RAdd(ROne, SqrtEpsilon))))

\* scope.scale() and new_zat < min_zat
NearExceeded(s, old_zat, ratio) ==
    ScopeScale(s) /\ RLt(Fl(RMul(old_zat, ratio)), MinZat(s))

(***************************************************************************)
(* Orbit (orbit.rs) and the screen-space helpers of Image (image.rs).      *)
(*                                                                         *)
(* A screen position is a pair of scalars.  A Unit vector is held as the   *)
(* primitive integer vector of its direction (its components are coprime   *)
(* integers), a length as its square, so that normalisation and the        *)
(* product ray * len are exact.                                            *)
(***************************************************************************)
RMin(a, b) == IF RLe(a, b) THEN a ELSE b
RMax(a, b) == IF RLe(a, b) THEN b ELSE a
\* x.clamp(lo, hi)
RClamp(x, lo, hi) == RMax(lo, RMin(x, hi))

\* ClampPosWrtMax that leaves the position as it is.
ClampPosUnclamped(pos, max) == pos

\* Image::clamp_pos_wrt_max
ClampPosWrtMax(pos, max) ==
    <<RClamp(pos[1], RZero, max[1]), RClamp(pos[2], RZero, max[2])>>

\* Image::transform_pos_and_max_wrt_max: <<centred position, half maximum>>
TransformPosAndMaxWrtMax(pos, max) ==
    LET half == <<RMul(max[1], RNorm(1, 2)), RMul(max[2], RNorm(1, 2))>>
    IN  << <<RSub(pos[1], half[1]), RSub(half[2], pos[2])>>, half >>

Lcm(a, b) == (a * b) \div Gcd(a, b)
\* The primitive integer vector in the direction of a non-zero vector.
Primitive(v) ==
    LET l == Lcm(Lcm(v[1][2], v[2][2]), v[3][2])
        n == <<(v[1][1] * l) \div v[1][2], (v[2][1] * l) \div v[2][2],
               (v[3][1] * l) \div v[3][2]>>
        g == Gcd(Gcd(Abs(n[1]), Abs(n[2])), Abs(n[3]))
    IN  <<R(n[1] \div g), R(n[2] \div g), R(n[3] \div g)>>

ISqrt(n) == CHOOSE k \in 0..n : k * k <= n /\ (k + 1) * (k + 1) > n
\* Square root of a scalar that is the square of a scalar.
RSqrt(a) == <<ISqrt(a[1]), ISqrt(a[2])>>

\* Unit::try_new_and_get(v, 0): None unless the norm exceeds zero.
TryNewAndGet(v) ==
    IF VDot(v, v) = RZero THEN None
    ELSE [ray |-> Primitive(v), len2 |-> VDot(v, v)]

\* ray.into_inner() * len
RayTimesLen(ray, len2) == VScale(ray, RSqrt(RDiv(len2, VDot(ray, ray))))

\* Orbit::compute: the new cache and the returned Option<UnitQuaternion>.
\* The returned rotation is held as its axis and the square of its angle.
\* With (t1, t2, t3) = arg^T * ray the axis (img * t) x exp equals
\* t2 * (tan x exp) + t3 * (zxp x exp), and for a start position in the
\* screen plane tan x exp = (pos.y, -pos.x, 0) and zxp x exp = tan, an
\* orthonormal pair: the axis is held by the coefficients t2 and t3 (up to
\* their common positive factor) and the direction u of tan x exp.  For the
\* start position pza, zxp is the zero vector and t2 = pza . ray = 0.
OrbitCompute(cache, pos, max) ==
    LET clamped == ClampPosWrtMax(pos, max)
        tpm == TransformPosAndMaxWrtMax(clamped, max)
        pos3 == <<tpm[1][1], tpm[1][2], RZero>>
        new == LET n == TryNewAndGet(pos3)
               IN  IF n = None THEN [ray |-> ZAxis, len2 |-> RZero] ELSE n
        start == cache.ray
        disp == VSub(RayTimesLen(new.ray, new.len2), RayTimesLen(start, cache.len2))
        d == TryNewAndGet(disp)
        radius == RMax(tpm[2][1], tpm[2][2])
        zxp == <<RNeg(start[2]), start[1], RZero>>
        t2 == VDot(start, d.ray)
        t3 == VDot(zxp, d.ray)
        coef == <<t2, t3>>
        g == Gcd(Abs(coef[1][1]), Abs(coef[2][1]))
    IN  [ vec |-> new,
          rot |-> IF cache = None THEN None
                  ELSE IF d = None THEN None
                  ELSE IF coef = <<RZero, RZero>> THEN None
                  ELSE [ axis |-> [ radial |-> coef[1][1] \div g,
                                    tangent |-> coef[2][1] \div g,
                                    u |-> <<start[2], RNeg(start[1]), RZero>> ],
                         angle2 |-> RDiv(d.len2, RMul(radius, radius)) ] ]

(***************************************************************************)
(* Inputs of Clamp::compute.                                               *)
(***************************************************************************)
RotX == FromAxisAngle(XAxis, 1)
RotY == FromAxisAngle(YAxis, 1)
InputRots == {Identity, RotX, RotY}

FramePositions == {V(x, 0, 0) : x \in -1..1} \cup {V(0, 1, 0)}
Frames ==
    {[pos |-> p, rot |-> r, zat |-> z] :
        p \in FramePositions, r \in InputRots, z \in {R(1), R(5)}}

ScopeDefault == [oim |-> FALSE, zcp |-> <<RNorm(1, 10), R(1000)>>]
ScopeInspect == [oim |-> TRUE, zcp |-> <<R(1), R(1000)>>]
\* Object inspection with the near clip plane at 3/2 from the target.
ScopeNear == [oim |-> TRUE, zcp |-> <<RNorm(3, 2), R(1000)>>]
\* A frame with the eye far from the target.
FarFrames == {[pos |-> Origin, rot |-> Identity, zat |-> R(13)]}
\* The far frame is handed to the Scale branch only.
FramesOf(d) == IF d.type = "Scale" THEN Frames \cup FarFrames ELSE Frames

Pivots == {Origin, V(1, 0, 0)}
FirstDeltas == {DeltaFirst(p, y, YAxis) : p \in 0..1, y \in -1..1}
OrbitDeltas == {DeltaOrbit(r, p) : r \in InputRots, p \in Pivots}
SlideDeltas ==
    {DeltaSlide(V(x, y, z)) : x \in -MaxCoord..MaxCoord, y \in -MaxCoord..MaxCoord,
                               z \in {0, MaxCoord}}
ScaleDeltas ==
    {DeltaScale(r, p) : r \in {R(4), R(2), RNorm(1, 2), RNorm(1, 8)}, p \in Pivots}
Deltas == {DeltaFrame} \cup FirstDeltas \cup OrbitDeltas \cup SlideDeltas \cup ScaleDeltas

\* Target box [-1,1]^3.
BoundTargetBox ==
    [BoundDefault EXCEPT !.min_target = Splat(R(-1)), !.max_target = Splat(R(1))]
\* The same box in a bound translated by (1,0,0).
BoundShifted ==
    [BoundTargetBox EXCEPT !.transform = [rot |-> Identity, trans |-> V(1, 0, 0)]]
\* The same box with a hysteresis of 1.
BoundLoose == [BoundTargetBox EXCEPT !.hysteresis = ROne]
BoundDistance == [BoundDefault EXCEPT !.min_distance = R(1), !.max_distance = R(10)]
\* Eye at most 3 along z.
BoundEyeBox == [BoundDefault EXCEPT !.max_eye = <<R(NMax), R(NMax), R(3)>>]
\* Target at most 0 along x, eye at least 1 along x.
BoundConflict ==
    [BoundDefault EXCEPT !.max_target = <<R(0), R(NMax), R(NMax)>>,
                         !.min_eye = <<R(1), R(-NMax), R(-NMax)>>]
\* Up axis at least 1/2 along y.
BoundUpLimit == [BoundDefault EXCEPT !.min_up = <<R(-NMax), RNorm(1, 2), R(-NMax)>>]
Bounds ==
    {BoundDefault, BoundTargetBox, BoundShifted, BoundLoose, BoundDistance,
     BoundEyeBox, BoundConflict, BoundUpLimit}

StubPlane == PlaneNew(XAxis, RZero)
\* Every probe reports an exceeded plane on every call.
StubAll == [kind |-> "Stub", target |-> StubPlane, eye |-> StubPlane, up |-> StubPlane]
\* Only the target probe reports an exceeded plane.
StubTarget ==
    [kind |-> "Stub", target |-> PlaneNew(YAxis, ROne), eye |-> None, up |-> None]
Stubs == {StubAll, StubTarget}
StubFrames ==
    {[pos |-> Origin, rot |-> Identity, zat |-> R(5)],
     [pos |-> V(1, 1, 0), rot |-> RotY, zat |-> R(1)]}

\* The scope is read by the Scale branch only.
ScopesOf(d) ==
    IF d.type = "Scale" THEN {ScopeDefault, ScopeInspect, ScopeNear} ELSE {ScopeDefault}

InitOrbitIdle == vec = None /\ rot = None /\ last = [op |-> "new"]
InitFrameIdle ==
    /\ this = [pos |-> Origin, rot |-> Identity, zat |-> ROne]
    /\ call = [op |-> "new"]
\* Touch::default()
TouchDefault == [pos |-> <<>>, vec |-> None, tap |-> None, mvs |-> 0]
\* The fingers reported since the Touch was last empty: their positions in
\* the order of their first report, whether each was reported once and
\* none since a finger was discarded (phase "down", then "up", else
\* "broken"), and whether the arithmetic of a report wrapped around.
FreshTap == [phase |-> "down", points |-> <<>>, wrapped |-> FALSE]
InitTouchIdle ==
    /\ touch = TouchDefault
    /\ event = [op |-> "new", seq |-> FreshTap, cancelled |-> FALSE]

InitClamp ==
    /\ \E d \in Deltas :
         /\ delta = d
         /\ scope \in ScopesOf(d)
         /\ \/ frame \in FramesOf(d) /\ clamp \in Bounds
            \/ frame \in StubFrames /\ clamp \in Stubs
    /\ pc = "call"
    /\ min_delta = DeltaFrame
    /\ loops = 0
    /\ rat = ROne
    /\ ret = None
    /\ iters = 0
    /\ probes = 0
    /\ InitOrbitIdle
    /\ InitFrameIdle
    /\ InitTouchIdle

(***************************************************************************)
(* Inputs of Orbit::compute.                                               *)
(***************************************************************************)
\* A square screen and a wide one, both with a pixel at the exact centre.
Screens == {<<R(2 * HalfScreen), R(2 * HalfScreen)>>, <<R(2 * HalfScreen), R(2)>>}
\* Pointer positions on and off the screens.
Pointers ==
    {<<R(x), R(y)>> : x \in -1..(2 * HalfScreen + 1),
                      y \in {-1, 1, HalfScreen, 2 * HalfScreen + 1}}

InitClampIdle ==
    /\ frame = [pos |-> Origin, rot |-> Identity, zat |-> ROne]
    /\ scope = ScopeDefault
    /\ clamp = BoundDefault
    /\ delta = DeltaFrame
    /\ pc = "done"
    /\ min_delta = DeltaFrame
    /\ loops = 0
    /\ rat = ROne
    /\ ret = None
    /\ iters = 0
    /\ probes = 0

(***************************************************************************)
(* Clamp::compute (clamp.rs): the steps of one call.                       *)
(***************************************************************************)
\* Delta::Frame => None
ComputeFrame ==
    /\ pc = "call"
    /\ delta.type = "Frame"
    /\ pc' = "done"
    /\ ret' = None
    /\ UNCHANGED <<frame, scope, clamp, delta, min_delta, loops, rat, iters, probes>>
    /\ UNCHANGED <<orbitVars, frameVars, touchVars>>

\* return Some((Delta::Frame, 0)) for a blocked pivot.
ComputeOrbitPivot ==
    /\ pc = "call"
    /\ delta.type # "Frame"
    /\ Blocked(delta)
    /\ pc' = "done"
    /\ ret' = Some(DeltaFrame, 0)
    /\ UNCHANGED <<frame, scope, clamp, delta, min_delta, loops, rat, iters, probes>>
    /\ UNCHANGED <<orbitVars, frameVars, touchVars>>

\* The locals set before the loop: min_delta = *delta, loops = 0, rat.
ComputeEnter ==
    /\ pc = "call"
    /\ delta.type # "Frame"
    /\ ~Blocked(delta)
    /\ pc' = "loop"
    /\ min_delta' = delta
    /\ loops' = 0
    /\ rat' = IF delta.type = "Scale" THEN delta.rat ELSE rat
    /\ UNCHANGED <<frame, scope, clamp, delta, ret, iters, probes>>
    /\ UNCHANGED <<orbitVars, frameVars, touchVars>>

\* The tail of every loop body and the return after the loop; np is the
\* number of probes the body evaluated.
LoopEnd(bound, md, np) ==
    /\ min_delta' = md
    /\ iters' = iters + 1
    /\ probes' = probes + np
    /\ IF Continue(bound, loops, clamp)
       THEN /\ loops' = loops + 1
            /\ pc' = "loop"
            /\ ret' = ret
       ELSE /\ loops' = loops
            /\ pc' = "done"
            /\ ret' = Result(md, delta, loops)
    /\ UNCHANGED <<frame, scope, clamp, delta>>
    /\ UNCHANGED <<orbitVars, frameVars, touchVars>>

LoopFirst ==
    /\ pc = "loop"
    /\ delta.type = "First"
    /\ \E f1 \in {Transform(min_delta, frame)} :
       \E target_plane \in {ProbeTarget(clamp, f1)} :
          LoopEnd(target_plane # None, FullStop(target_plane, min_delta), 1)
    /\ rat' = rat

LoopOrbit ==
    /\ pc = "loop"
    /\ delta.type = "Orbit"
    /\ \E f1 \in {Transform(min_delta, frame)} :
       \E eye_plane \in {ProbeEye(clamp, f1)} :
       \E md1 \in Glides(eye_plane, delta, min_delta) :
       \E f2 \in {Transform(md1, frame)} :
       \E up_plane \in {ProbeUp(clamp, f2)} :
          LoopEnd(eye_plane # None \/ up_plane # None, FullStop(up_plane, md1), 2)
    /\ rat' = rat

LoopSlide ==
    /\ pc = "loop"
    /\ delta.type = "Slide"
    /\ \E f1 \in {Transform(min_delta, frame)} :
       \E target_plane \in {ProbeTarget(clamp, f1)} :
       \E md1 \in {SlideOnto(target_plane, Target(f1), Target(frame), frame, min_delta)} :
       \E f2 \in {Transform(md1, frame)} :
       \E eye_plane \in {ProbeEye(clamp, f2)} :
       \E md2 \in {SlideOnto(eye_plane, Eye(f2), Eye(frame), frame, md1)} :
          LoopEnd(target_plane # None \/ eye_plane # None, md2, 2)
    /\ rat' = rat

LoopScale ==
    /\ pc = "loop"
    /\ delta.type = "Scale"
    /\ \E f1 \in {Transform(min_delta, frame)} :
       \E eye_plane \in {ProbeEye(clamp, f1)} :
       \E md1 \in {FullStop(eye_plane, min_delta)} :
       \E near \in {NearExceeded(scope, Distance(frame), rat)} :
       \E rat2 \in {IF near THEN Fl(RDiv(MinZat(scope), Distance(frame))) ELSE rat} :
          /\ LoopEnd(eye_plane # None \/ near,
                     IF near THEN DeltaScale(rat2, delta.pos) ELSE md1, 1)
          /\ rat' = rat2

NextClamp ==
    \/ ComputeFrame
    \/ ComputeOrbitPivot
    \/ ComputeEnter
    \/ LoopFirst
    \/ LoopOrbit
    \/ LoopSlide
    \/ LoopScale

SpecClamp == InitClamp /\ [][NextClamp]_vars

(***************************************************************************)
(* The Orbit gesture (orbit.rs).  last records the operation, its          *)
(* arguments, the cache the call found (old), the operation before it      *)
(* (after) and whether the call before it was a compute with the same      *)
(* screen size and the same position once clamped into the screen (same).  *)
(***************************************************************************)
InitOrbit == InitClampIdle /\ InitOrbitIdle /\ InitFrameIdle /\ InitTouchIdle

\* A position moved into the screen [0, max] along each coordinate.
Within(pos, max) ==
    << IF pos[1][1] < 0 THEN RZero ELSE IF RLt(max[1], pos[1]) THEN max[1] ELSE pos[1],
       IF pos[2][1] < 0 THEN RZero ELSE IF RLt(max[2], pos[2]) THEN max[2] ELSE pos[2] >>

Compute ==
    \E pos \in Pointers, max \in Screens :
        \E out \in {OrbitCompute(vec, pos, max)} :
            /\ vec' = out.vec
            /\ rot' = out.rot
            /\ last' = [ op |-> "compute", pos |-> pos, max |-> max, old |-> vec,
                         after |-> last.op,
                         same |-> /\ last.op = "compute"
                                  /\ last.max = max
                                  /\ Within(last.pos, max) = Within(pos, max) ]
            /\ UNCHANGED <<clampVars, frameVars, touchVars>>

\* Discard that leaves the cache as it is.
DiscardKeep ==
    /\ vec' = vec
    /\ rot' = None
    /\ last' = [op |-> "discard"]
    /\ UNCHANGED <<clampVars, frameVars, touchVars>>

Discard ==
    /\ vec' = None
    /\ rot' = None
    /\ last' = [op |-> "discard"]
    /\ UNCHANGED <<clampVars, frameVars, touchVars>>

NextOrbit ==
    \/ Compute
    \/ Discard

SpecOrbit == InitOrbit /\ [][NextOrbit]_vars

(***************************************************************************)
(* Calls of the methods of Delta (delta.rs), Frame (frame.rs) and Plane    *)
(* (plane.rs).  Each call is made on a Frame drawn from Frames; call       *)
(* records the arguments and what the call returned.                       *)
(***************************************************************************)
\* Turns about the coordinate axes by multiples of a quarter turn.
TurnRots == {FromAxisAngle(a, k) : a \in {XAxis, YAxis, ZAxis}, k \in 0..3}
SampleDeltas ==
    {DeltaFrame}
    \cup {DeltaFirst(p, y, YAxis) : p \in -1..1, y \in 0..2}
    \cup {DeltaOrbit(q, p) : q \in {Identity, RotX, RotInverse(RotY), FromAxisAngle(ZAxis, 2)},
                             p \in {Origin, V(1, 0, 2)}}
    \cup {DeltaSlide(v) : v \in {Origin, V(1, 0, 0), V(-2, 0, 0), V(1, -2, 0),
                                 V(-1, 2, 1), V(2, 1, -1)}}
    \cup {DeltaScale(r, p) : r \in {ROne, R(2), RNorm(1, 2), RNorm(3, 2)},
                             p \in {Origin, V(1, 0, 2)}}
\* Interpolation parameters between 0 and 1.
Fractions == {RZero, RNorm(1, 2), ROne}
\* The interpolated angles are multiples of a quarter turn.
Interpolable(d, t) ==
    CASE d.type = "First" -> RMul(R(d.pitch), t)[2] = 1 /\ RMul(R(d.yaw), t)[2] = 1
      [] d.type = "Orbit" -> RMul(RotAngle(d.rot), t)[2] = 1
      [] OTHER -> TRUE

\* New targets on a grid, at a distance from the eye that is a scalar.
MaxTarget == 4
Targets(f) ==
    {t \in {V(x, y, z) : x \in -MaxTarget..MaxTarget, y \in -MaxTarget..MaxTarget,
                         z \in -MaxTarget..MaxTarget} :
        IsSquare(VDot(VSub(t, Eye(f)), VSub(t, Eye(f))))}

\* Unit normals, signed distances and points of Plane calls.
Normals == SignedAxes \cup {<<RNorm(3, 5), RNorm(4, 5), RZero>>,
                            <<RZero, RNorm(-3, 5), RNorm(4, 5)>>}
PlaneDistances == {R(-5), RZero, RNorm(1, 2), R(5)}
Points == {Origin, V(1, 2, 3), V(-2, 0, 1), <<RNorm(1, 2), R(-3), RZero>>}

InitFrame ==
    /\ InitClampIdle /\ InitOrbitIdle /\ InitTouchIdle
    /\ this \in Frames
    /\ call = [op |-> "new"]

\* d.transform(&this): the frame is borrowed, the result is a new Frame.
CallTransformInPlace ==
    /\ call.op = "new"
    /\ \E d \in SampleDeltas :
          /\ call' = [op |-> "transform", delta |-> d, frame |-> this,
                      out |-> Transform(d, this)]
          /\ this' = Transform(d, this)
    /\ UNCHANGED <<clampVars, orbitVars, touchVars>>

\* d.transform(&this)
CallTransform ==
    /\ call.op = "new"
    /\ \E d \in SampleDeltas :
          call' = [op |-> "transform", delta |-> d, frame |-> this,
                   out |-> Transform(d, this)]
    /\ this' = this
    /\ UNCHANGED <<clampVars, orbitVars, touchVars>>

\* d.inverse().transform(&out) on the result of d.transform(&this)
CallInverseTransform ==
    /\ call.op = "transform"
    /\ call' = [op |-> "inverse_transform", delta |-> call.delta, frame |-> call.out,
                out |-> Transform(Inverse(call.delta), call.out)]
    /\ this' = this
    /\ UNCHANGED <<clampVars, orbitVars, touchVars>>

\* d.lerp_slerp(t) and d.lerp_slerp(t).transform(&this)
CallLerpSlerp ==
    /\ call.op = "new"
    /\ \E d \in SampleDeltas, t \in Fractions :
          /\ Interpolable(d, t)
          /\ call' = [op |-> "lerp_slerp", delta |-> d, t |-> t, out |-> LerpSlerp(d, t),
                      applied |-> Transform(LerpSlerp(d, t), this)]
    /\ this' = this
    /\ UNCHANGED <<clampVars, orbitVars, touchVars>>

\* a.minimum(&b)
CallMinimum ==
    /\ call.op = "new"
    /\ \E a \in SampleDeltas, b \in SampleDeltas :
          call' = [op |-> "minimum", self |-> a, other |-> b, out |-> Minimum(a, b)]
    /\ this' = this
    /\ UNCHANGED <<clampVars, orbitVars, touchVars>>

\* this.set_target(target)
CallSetTarget ==
    /\ call.op = "new"
    /\ \E target \in Targets(this) :
          /\ this' = SetTarget(this, target)
          /\ call' = [op |-> "set_target", target |-> target, frame |-> this]
    /\ UNCHANGED <<clampVars, orbitVars, touchVars>>

\* this.local_orbit_around(&q, &pos)
CallLocalOrbitAround ==
    /\ call.op = "new"
    /\ \E q \in TurnRots, pos \in Points :
          /\ this' = LocalOrbitAround(this, q, pos)
          /\ call' = [op |-> "local_orbit_around", rot |-> q, pos |-> pos,
                      frame |-> this]
    /\ UNCHANGED <<clampVars, orbitVars, touchVars>>

\* this.view() and this.inverse_view()
CallView ==
    /\ call.op = "new"
    /\ call' = [op |-> "view", view |-> View(this), inverse_view |-> InverseView(this)]
    /\ this' = this
    /\ UNCHANGED <<clampVars, orbitVars, touchVars>>

\* Plane::new(normal, distance) and its project_point(&point), with the
\* projection of the result (again).
CallProjectPoint ==
    /\ call.op = "new"
    /\ \E normal \in Normals, distance \in PlaneDistances, point \in Points :
          \E plane \in {PlaneNew(normal, distance)} :
             call' = [op |-> "project_point", normal |-> normal, distance |-> distance,
                      plane |-> plane, point |-> point,
                      out |-> ProjectPoint(plane, point),
                      again |-> ProjectPoint(plane, ProjectPoint(plane, point))]
    /\ this' = this
    /\ UNCHANGED <<clampVars, orbitVars, touchVars>>

NextFrame ==
    \/ CallTransform
    \/ CallInverseTransform
    \/ CallLerpSlerp
    \/ CallMinimum
    \/ CallSetTarget
    \/ CallLocalOrbitAround
    \/ CallView
    \/ CallProjectPoint

SpecFrame == InitFrame /\ [][NextFrame]_vars

(***************************************************************************)
(* Touch (touch.rs).  touch.pos is the LinearMap of finger positions as    *)
(* the sequence of its entries [fid, pos], a screen position being a pair  *)
(* of scalars.  usize is UsizeBits wide.  A unit ray is held as the        *)
(* primitive integer vector of its direction, a length as its square, a    *)
(* roll angle atan2(perp, dot) as the pair <<perp, dot>> up to a positive   *)
(* factor and a scale ratio as the pair of the squared lengths.            *)
(***************************************************************************)
UsizeBits == 4
UsizeMax == 2 ^ UsizeBits - 1
Wrap(n) == n % (2 ^ UsizeBits)
\* Capacity of LinearMap<F, Point2<N>, 10>
Capacity == 10
\* A ray or an angle that is not a number is held as the empty tuple.
NaN == <<>>

\* Index of the entry of finger fid, or 0.
IndexOf(map, fid) ==
    IF \E i \in 1..Len(map) : map[i].fid = fid
    THEN CHOOSE i \in 1..Len(map) : map[i].fid = fid
    ELSE 0
\* LinearMap::insert: the new map and the old value of the key as <<value>>,
\* or <<>> for a new key.
Insert(map, fid, p) ==
    IF IndexOf(map, fid) = 0
    THEN [map |-> Append(map, [fid |-> fid, pos |-> p]), old |-> <<>>]
    ELSE [map |-> [map EXCEPT ![IndexOf(map, fid)].pos = p],
          old |-> <<map[IndexOf(map, fid)].pos>>]
\* LinearMap::remove: the last entry takes the place of the removed one.
Remove(map, fid) ==
    IF IndexOf(map, fid) = 0 THEN map
    ELSE [i \in 1..(Len(map) - 1) |-> IF i = IndexOf(map, fid) THEN map[Len(map)] ELSE map[i]]

RECURSIVE SumPos(_, _)
SumPos(map, i) ==
    IF i = 0 THEN <<RZero, RZero>>
    ELSE <<RAdd(SumPos(map, i - 1)[1], map[i].pos[1]),
           RAdd(SumPos(map, i - 1)[2], map[i].pos[2])>>
\* Centroid position of the fingers.
Centroid(map) ==
    <<RDiv(SumPos(map, Len(map))[1], R(Len(map))),
      RDiv(SumPos(map, Len(map))[2], R(Len(map)))>>

\* Unit::new_and_get of the vector from the first to the second finger: a
\* vector of zero length is divided by zero.
NewAndGet(one_pos, two_pos) ==
    LET v == <<RSub(two_pos[1], one_pos[1]), RSub(two_pos[2], one_pos[2]), RZero>>
    IN  IF VDot(v, v) = RZero THEN [ray |-> NaN, len2 |-> RZero]
        ELSE [ray |-> Primitive(v), len2 |-> VDot(v, v)]
\* old_ray.perp(&new_ray).atan2(old_ray.dot(&new_ray))
Roll(old_ray, new_ray) ==
    IF old_ray = NaN \/ new_ray = NaN THEN NaN
    ELSE <<RSub(RMul(old_ray[1], new_ray[2]), RMul(old_ray[2], new_ray[1])),
           VDot(old_ray, new_ray)>>
NoRoll == <<RZero, ROne>>
NoScale == <<ROne, ROne>>
Gesture(num, p, roll, ratio2) == [num |-> num, pos |-> p, rot |-> roll, rat2 |-> ratio2]

\* self.tap.map_or(1, |(tap, _pos)| tap).max(num)
MaxFingersSeen(t, num) ==
    LET seen == IF t.tap = None THEN 1 ELSE t.tap.num
    IN  IF seen > num THEN seen ELSE num
\* max + mvs * max or mvs * max exceeds usize.
Overflows(max, mvs) == max + mvs * max > UsizeMax

\* The move counter of a cancelled tap left as it is.
CancelledMvsKeep(m) == m
\* self.mvs = usize::MAX
CancelledMvs(m) == UsizeMax

\* if self.mvs >= max + mvs * max, for a changed finger position.
Cancels(t, fid, p, mvs) ==
    LET ins == Insert(t.pos, fid, p)
        max == MaxFingersSeen(t, Len(ins.map))
    IN  ins.old # <<p>> /\ t.mvs >= Wrap(max + Wrap(mvs * max))

\* Touch::compute with wrapping arithmetic: the new fields and the returned
\* Option.
TouchCompute(t, fid, p, mvs) ==
    LET ins == Insert(t.pos, fid, p)
        num == Len(ins.map)
        max == MaxFingersSeen(t, num)
        centroid == Centroid(ins.map)
        cancel == t.mvs >= Wrap(max + Wrap(mvs * max))
        mvs1 == IF cancel THEN CancelledMvs(t.mvs) ELSE t.mvs + 1
        tap1 == IF cancel THEN None
                ELSE IF num >= max THEN [num |-> num, pos |-> centroid] ELSE t.tap
        new == NewAndGet(ins.map[1].pos, ins.map[2].pos)
    IN  IF ins.old = <<p>> THEN [touch |-> [t EXCEPT !.pos = ins.map], ret |-> None]
        ELSE IF mvs1 >= Wrap(mvs * max)
        THEN IF num = 2
             THEN [touch |-> [pos |-> ins.map, vec |-> new, tap |-> tap1, mvs |-> mvs1],
                   ret |-> IF t.vec # None
                           THEN Gesture(num, centroid, Roll(t.vec.ray, new.ray),
                                        <<t.vec.len2, new.len2>>)
                           ELSE Gesture(num, centroid, NoRoll, NoScale)]
             ELSE [touch |-> [pos |-> ins.map, vec |-> t.vec, tap |-> tap1, mvs |-> mvs1],
                   ret |-> Gesture(num, centroid, NoRoll, NoScale)]
        ELSE [touch |-> [pos |-> ins.map, vec |-> t.vec, tap |-> tap1, mvs |-> mvs1],
              ret |-> None]

\* TouchDiscard that returns the potential tap for an unknown finger too.
TouchDiscardUnfiltered(t, fid) ==
    LET unknown == IndexOf(t.pos, fid) = 0
        map == Remove(t.pos, fid)
    IN  IF Len(map) = 0 \/ unknown
        THEN [touch |-> [pos |-> <<>>, vec |-> None, tap |-> None, mvs |-> 0],
              ret |-> t.tap]
        ELSE [touch |-> [t EXCEPT !.pos = map, !.vec = None], ret |-> None]

\* Touch::discard: the new fields and the returned Option.
TouchDiscard(t, fid) ==
    LET unknown == IndexOf(t.pos, fid) = 0
        map == Remove(t.pos, fid)
    IN  IF Len(map) = 0 \/ unknown
        THEN [touch |-> [pos |-> <<>>, vec |-> None, tap |-> None, mvs |-> 0],
              ret |-> IF unknown THEN None ELSE t.tap]
        ELSE [touch |-> [t EXCEPT !.pos = map, !.vec = None], ret |-> None]

\* Inputs of Touch.
MaxFingers == 3
Fingers == 1..MaxFingers
TouchPoints == {<<R(0), R(0)>>, <<R(2), R(1)>>}
MvsArgs == {0, 1, UsizeMax}

InitTouch ==
    /\ InitClampIdle /\ InitOrbitIdle /\ InitFrameIdle
    /\ InitTouchIdle

Panic == [panic |-> TRUE]
Panicked == event.op = "compute" /\ event.ret = Panic
Full(t, fid) == Len(t.pos) = Capacity /\ IndexOf(t.pos, fid) = 0
Changed(t, fid, p) == Insert(t.pos, fid, p).old # <<p>>
MaxOf(t, fid, p) == MaxFingersSeen(t, Len(Insert(t.pos, fid, p).map))

\* The reports of the fingers are no longer those of a tap.
BrokenTap == [phase |-> "broken", points |-> <<>>, wrapped |-> FALSE]
\* The reports of the fingers after compute(fid, p, mvs) on the fields t.
Reported(seq, t, fid, p, mvs) ==
    LET start == IF t.pos = <<>> THEN FreshTap ELSE seq
    IN  IF start.phase = "down" /\ IndexOf(t.pos, fid) = 0
        THEN [phase |-> "down", points |-> Append(start.points, p),
              wrapped |-> start.wrapped \/ Overflows(MaxOf(t, fid, p), mvs)]
        ELSE BrokenTap
\* The reports of the fingers after discard(fid) of a tracked finger
\* (known) left the fields t: phase "done" once no finger is left.
Released(seq, known, t) ==
    IF ~known \/ seq.phase \in {"broken", "done"} THEN BrokenTap
    ELSE IF t.pos = <<>> THEN [seq EXCEPT !.phase = "done"]
    ELSE [seq EXCEPT !.phase = "up"]

\* A new finger gets the least identifier in no use.
Admissible(t, fid) ==
    IndexOf(t.pos, fid) = 0 => \A other \in 1..(fid - 1) : IndexOf(t.pos, other) # 0

\* touch.compute(fid, pos, mvs) that returns; an arithmetic overflow wraps
\* around.  event.cancelled tells whether a compute cancelled the potential
\* tap since the Touch was last empty.
ComputeFinger ==
    /\ ~Panicked
    /\ \E fid \in Fingers, p \in TouchPoints, mvs \in MvsArgs :
          /\ Admissible(touch, fid)
          /\ ~Full(touch, fid)
          /\ \E out \in {TouchCompute(touch, fid, p, mvs)} :
                /\ touch' = out.touch
                /\ event' = [op |-> "compute", ret |-> out.ret,
                             seq |-> Reported(event.seq, touch, fid, p, mvs),
                             cancelled |-> \/ event.cancelled
                                           \/ Cancels(touch, fid, p, mvs)]
    /\ UNCHANGED <<clampVars, orbitVars, frameVars>>

\* touch.compute(fid, pos, mvs) that panics: with more than ten fingers, or
\* on an arithmetic overflow in a build that checks for it.
ComputePanic ==
    /\ ~Panicked
    /\ \E fid \in Fingers, p \in TouchPoints, mvs \in MvsArgs :
          /\ Admissible(touch, fid)
          /\ \/ Full(touch, fid)
             \/ Changed(touch, fid, p) /\ Overflows(MaxOf(touch, fid, p), mvs)
          /\ touch' = IF Full(touch, fid) THEN touch
                      ELSE [touch EXCEPT !.pos = Insert(touch.pos, fid, p).map]
          /\ event' = [op |-> "compute", ret |-> Panic, seq |-> BrokenTap,
                       cancelled |-> event.cancelled]
    /\ UNCHANGED <<clampVars, orbitVars, frameVars>>

\* touch.discard(fid).  event records whether the finger was tracked before
\* the call (known), the number of fingers and the potential tap before it,
\* and whether the potential tap was cancelled before it (was).
DiscardFinger ==
    /\ ~Panicked
    /\ \E fid \in Fingers :
          \E out \in {TouchDiscard(touch, fid)} :
             /\ touch' = out.touch
             /\ event' = [op |-> "discard", ret |-> out.ret,
                          known |-> IndexOf(touch.pos, fid) # 0,
                          fingers |-> Len(touch.pos), tap |-> touch.tap,
                          seq |-> Released(event.seq, IndexOf(touch.pos, fid) # 0,
                                           out.touch),
                          was |-> event.cancelled,
                          cancelled |-> event.cancelled /\ out.touch.pos # <<>>]
    /\ UNCHANGED <<clampVars, orbitVars, frameVars>>

NextTouch ==
    \/ ComputeFinger
    \/ ComputePanic
    \/ DiscardFinger

SpecTouch == InitTouch /\ [][NextTouch]_vars

(***************************************************************************)
(* Properties of Clamp::compute, stated on the state after the return.     *)
(***************************************************************************)
Done == pc = "done"
\* delta.transform(frame)
Tentative == Transform(delta, frame)
Satisfies(c, f) ==
    ProbeTarget(c, f) = None /\ ProbeEye(c, f) = None /\ ProbeUp(c, f) = None
\* The scaled distance is below the near-plane minimum in object-inspection mode.
NearLimited ==
    /\ delta.type = "Scale"
    /\ scope.oim
    /\ RLt(Fl(RMul(frame.zat, delta.rat)), MinZat(scope))
OffOrigin == delta.pos # Origin

\* A Bound with identity transform whose only finite limits are a target box.
IsTargetBoxOnly(c) ==
    /\ c.kind = "Bound"
    /\ [c EXCEPT !.min_target = BoundDefault.min_target,
                 !.max_target = BoundDefault.max_target,
                 !.hysteresis = BoundDefault.hysteresis] = BoundDefault
    /\ \A i \in 1..3 : /\ RLt(R(-NMax), c.min_target[i])
                       /\ RLe(c.min_target[i], c.max_target[i])
                       /\ RLt(c.max_target[i], R(NMax))
InsideBox(c, p) ==
    \A i \in 1..3 : RLe(c.min_target[i], p[i]) /\ RLe(p[i], c.max_target[i])
\* The faces <<axis, side>> of the target box that p lies beyond.
ExceededFaces(c, p) ==
    {<<i, "min">> : i \in {j \in 1..3 : RLt(p[j], RSub(c.min_target[j], c.hysteresis))}}
    \cup
    {<<i, "max">> : i \in {j \in 1..3 : RGt(p[j], RAdd(c.max_target[j], c.hysteresis))}}
FaceCoord(c, face) ==
    IF face[2] = "min" THEN c.min_target[face[1]] ELSE c.max_target[face[1]]
ExceededAxes(c, p) == {face[1] : face \in ExceededFaces(c, p)}
\* The target the returned delta leads to.
ClampedTarget == Transform(ret.delta, frame).pos
OnExceededFaces ==
    \A face \in ExceededFaces(clamp, Tentative.pos) :
        ClampedTarget[face[1]] = FaceCoord(clamp, face)

\* C1 as claimed: whenever the unmodified delta satisfies every probe (and
\* the near-plane minimum), for every variant and any pivot, compute
\* returns None.
C1_AnyPivotIsNone ==
    (Done /\ Satisfies(clamp, Tentative) /\ ~NearLimited) => ret = None

\* C1 amended: whenever the unmodified delta satisfies every probe (and the
\* near-plane minimum) compute returns None, except for an Orbit delta with
\* an off-origin pivot.
C1_SatisfiedIsNone ==
    (/\ Done
     /\ ~(delta.type = "Orbit" /\ OffOrigin)
     /\ Satisfies(clamp, Tentative)
     /\ ~NearLimited) => ret = None

C1_Witness ==
    /\ Done
    /\ clamp = BoundTargetBox
    /\ delta.type = "Slide"
    /\ delta.vec # Origin
    /\ Satisfies(clamp, Tentative)
    /\ iters = 1
    /\ ret = None

\* C2: every call of compute returns, after at most loops() + 1 executions
\* of the loop body with at most two probe evaluations each, and the loop
\* count it returns never exceeds loops(): the budget holds in every state,
\* a call that has not returned can take a step, and every step decreases a
\* non-negative rank.
C2_Budget ==
    /\ loops <= Loops(clamp)
    /\ iters <= Loops(clamp) + 1
    /\ probes <= 2 * iters
    /\ (ret # None => ret.loops <= Loops(clamp))
C2_CanStep ==
    \/ Done
    \/ pc = "call"
    \/ /\ pc = "loop"
       /\ delta.type \in {"First", "Orbit", "Slide", "Scale"}
       /\ delta.type = "Orbit" => GlideRots # {}
C2_Rank ==
    (IF pc = "call" THEN 1 ELSE 0) + (IF Done THEN 0 ELSE 1)
    + (Loops(clamp) + 1 - iters)
C2_BoundedTermination ==
    /\ [](C2_Budget /\ C2_CanStep /\ C2_Rank >= 0)
    /\ [][C2_Rank' < C2_Rank]_vars

C2_Witness ==
    /\ Done
    /\ clamp = StubAll
    /\ delta.type = "Slide"
    /\ iters = DefaultLoops + 1
    /\ ret # None
    /\ ret.loops = DefaultLoops

\* C3: a Slide delta that moves a target inside the box of a target-box-only
\* Bound beyond exactly one face is clamped, within three loops, to a Slide
\* whose target lies on that face and keeps the other two coordinates of the
\* attempted target.
C3_SlideOntoFace ==
    (/\ Done
     /\ IsTargetBoxOnly(clamp)
     /\ delta.type = "Slide"
     /\ InsideBox(clamp, frame.pos)
     /\ Cardinality(ExceededFaces(clamp, Tentative.pos)) = 1)
    => /\ ret # None
       /\ ret.delta.type = "Slide"
       /\ ret.loops <= 3
       /\ OnExceededFaces
       /\ \A i \in (1..3) \ ExceededAxes(clamp, Tentative.pos) :
            ClampedTarget[i] = Tentative.pos[i]

C3_Witness ==
    /\ Done
    /\ clamp = BoundTargetBox
    /\ frame = [pos |-> Origin, rot |-> Identity, zat |-> R(5)]
    /\ delta = DeltaSlide(V(2, 0, 0))
    /\ ret = Some(DeltaSlide(V(1, 0, 0)), 1)

\* C4: a Slide delta whose attempted target exceeds faces of two or three
\* axes of the box of a target-box-only Bound is clamped, one face per loop
\* and within loops(), to a Slide whose target lies on every exceeded face
\* and whose frame passes the target, eye and up probes.
C4_SlideIntoCorner ==
    (/\ Done
     /\ IsTargetBoxOnly(clamp)
     /\ delta.type = "Slide"
     /\ Cardinality(ExceededAxes(clamp, Tentative.pos)) >= 2)
    => /\ ret # None
       /\ ret.delta.type = "Slide"
       /\ ret.loops <= Loops(clamp)
       /\ ret.loops = Cardinality(ExceededFaces(clamp, Tentative.pos))
       /\ OnExceededFaces
       /\ Satisfies(clamp, Transform(ret.delta, frame))

C4_Witness ==
    /\ Done
    /\ clamp = BoundTargetBox
    /\ frame = [pos |-> Origin, rot |-> Identity, zat |-> R(5)]
    /\ delta = DeltaSlide(V(2, 2, MaxCoord))
    /\ ret = Some(DeltaSlide(V(1, 1, 1)), 3)

\* The scaled distance exceeds min_distance or max_distance of a Bound.
DistanceExceeded ==
    /\ clamp.kind = "Bound"
    /\ delta.type = "Scale"
    /\ \/ RGt(RSub(clamp.min_distance, Tentative.zat), clamp.hysteresis)
       \/ RGt(RSub(Tentative.zat, clamp.max_distance), clamp.hysteresis)
ViolatedDistance ==
    IF RGt(RSub(clamp.min_distance, Tentative.zat), clamp.hysteresis)
    THEN clamp.min_distance ELSE clamp.max_distance

\* C5 as claimed: a Scale delta exceeding min_distance or max_distance is
\* clamped to a Scale whose resulting distance lands on the violated
\* distance bound, up to hysteresis.
C5_LandsOnDistanceBound ==
    (Done /\ DistanceExceeded /\ ~NearLimited)
    => /\ ret # None
       /\ ret.delta.type = "Scale"
       /\ RLe(RAbs(RSub(Transform(ret.delta, frame).zat, ViolatedDistance)),
              clamp.hysteresis)

\* C5 amended: a Scale delta exceeding min_distance or max_distance (and not
\* limited by the near plane) is replaced by the identity delta, so the
\* distance stays what it was.
C5_ScaleFullStop ==
    (Done /\ DistanceExceeded /\ ~NearLimited)
    => /\ ret # None
       /\ ret.delta = DeltaFrame
       /\ Transform(ret.delta, frame).zat = frame.zat

C5_Witness ==
    /\ Done
    /\ clamp = BoundDistance
    /\ frame.zat = R(5)
    /\ delta = DeltaScale(R(4), Origin)
    /\ Tentative.zat = R(20)
    /\ ret = Some(DeltaFrame, 1)

\* C6: an Orbit delta with an off-origin pivot returns Some((Delta::Frame, 0))
\* before the loop, without evaluating any probe.
C6_OrbitPivotBlocked ==
    (Done /\ delta.type = "Orbit" /\ OffOrigin)
    => /\ ret = Some(DeltaFrame, 0)
       /\ iters = 0
       /\ probes = 0

C6_Witness ==
    /\ Done
    /\ clamp = StubAll
    /\ delta.type = "Orbit"
    /\ OffOrigin
    /\ delta.rot # Identity
    /\ ret = Some(DeltaFrame, 0)

LastCentred ==
    LET w == Within(last.pos, last.max)
    IN  << RSub(w[1], RMul(last.max[1], RNorm(1, 2))),
           RSub(RMul(last.max[2], RNorm(1, 2)), w[2]), RZero >>
\* The centred position the last compute call found cached.
CachedCentred == RayTimesLen(last.old.ray, last.old.len2)

\* C8: a compute that is the first call since creation or since the most
\* recent discard returns None.
C8_FirstComputeNone ==
    (last.op = "compute" /\ last.after \in {"new", "discard"}) => rot = None

C8_Witness ==
    /\ last.op = "compute"
    /\ last.after = "discard"
    /\ LastCentred # Origin
    /\ vec # None
    /\ rot = None

\* C9: a compute that follows a compute with the same screen size and the
\* same position once clamped into the screen returns None.
C9_DuplicateNone ==
    (last.op = "compute" /\ last.same) => rot = None

C9_Witness ==
    /\ last.op = "compute"
    /\ last.same
    /\ Within(last.pos, last.max) # last.pos
    /\ last.old # None
    /\ rot = None

\* C10: a compute in Tracking state whose clamped position differs from the
\* cached one returns Some rotation.
C10_ChangedIsSome ==
    (last.op = "compute" /\ last.old # None /\ LastCentred # CachedCentred)
    => rot # None

\* Two consecutive samples of one gesture that differ and lie on one straight
\* line through the screen centre.
RadialPair ==
    /\ last.op = "compute"
    /\ last.old # None
    /\ LastCentred # CachedCentred
    /\ RSub(RMul(CachedCentred[1], LastCentred[2]),
            RMul(CachedCentred[2], LastCentred[1])) = RZero
\* The square of displacement length / radius, from the arguments of the call.
ArcAngle2 ==
    LET disp == VSub(LastCentred, CachedCentred)
        radius == RMul(RMax(last.max[1], last.max[2]), RNorm(1, 2))
    IN  RDiv(VDot(disp, disp), RMul(radius, radius))
\* The returned rotation turns by displacement length / radius about the axis
\* in the screen plane perpendicular to the radial line of the start.
EqualArc ==
    /\ rot # None
    /\ rot.angle2 = ArcAngle2
    /\ rot.axis.tangent = 0
    /\ rot.axis.radial # 0

\* C11: for two consecutive samples on one straight radial line through the
\* screen centre, compute returns a rotation by displacement length / radius
\* about the axis in the screen plane perpendicular to that line, whatever
\* the radial offset of the start.
C11_EqualArcLength == RadialPair => EqualArc

\* C11, start off the centre: the equal-arc-length rotation is returned.
C11_OffCentreEqualArc == (RadialPair /\ CachedCentred # Origin) => EqualArc

\* C11, start at the exact centre: no rotation is returned.
C11_CentreStartNone == (RadialPair /\ CachedCentred = Origin) => rot = None

(***************************************************************************)
(* Properties of the methods of Delta, Frame and Plane.                    *)
(***************************************************************************)
\* C12: for every delta d of every variant and every frame f,
\* d.inverse().transform(d.transform(f)) equals f.
C12_InverseRestores == call.op = "inverse_transform" => call.out = this

\* C12, First, Orbit, Slide and Frame: the inverse restores the frame.
C12_RigidInverseRestores ==
    (call.op = "inverse_transform" /\ call.delta.type # "Scale") => call.out = this

\* C12, Scale: the inverse restores target and rotation and leaves the
\* distance multiplied by rat * (2 - rat).
C12_ScaleInverseDistance ==
    (call.op = "inverse_transform" /\ call.delta.type = "Scale")
    => /\ call.out.pos = this.pos
       /\ call.out.rot = this.rot
       /\ call.out.zat = RMul(this.zat, RMul(call.delta.rat, RSub(R(2), call.delta.rat)))

\* C13: Delta::Frame.transform(f) equals f for every frame f, and transform
\* of every variant returns a new Frame and leaves the frame it was given as
\* it was.
C13_IdentityNonDestructive ==
    call.op = "transform"
    => /\ this = call.frame
       /\ call.delta = DeltaFrame => call.out = call.frame
       /\ Transform(DeltaFrame, call.out) = call.out

C13_Witness ==
    /\ call.op = "transform"
    /\ call.delta.type = "Orbit"
    /\ call.delta.pos # Origin
    /\ call.out.pos # call.frame.pos
    /\ call.out.rot # call.frame.rot
    /\ this = call.frame

\* The delta has zero angles, the identity rotation, the zero vector or the
\* ratio 1.
IdentityEquivalent(d) ==
    CASE d.type = "Frame" -> TRUE
      [] d.type = "First" -> d.pitch = 0 /\ d.yaw = 0
      [] d.type = "Orbit" -> d.rot = Identity
      [] d.type = "Slide" -> d.vec = Origin
      [] d.type = "Scale" -> d.rat = ROne

\* C14: for every delta d of every variant, d.lerp_slerp(1) equals d, and
\* d.lerp_slerp(0) is identity-equivalent: d.lerp_slerp(0).transform(f)
\* equals f for every frame f.
C14_LerpSlerpEndpoints ==
    call.op = "lerp_slerp"
    => /\ call.t = ROne => call.out = call.delta
       /\ call.t = RZero => (IdentityEquivalent(call.out) /\ call.applied = this)

C14_Witness ==
    /\ call.op = "lerp_slerp"
    /\ call.t = RZero
    /\ call.delta.type = "Scale"
    /\ call.delta.rat = R(2)
    /\ call.delta.pos # Origin
    /\ this.rot # Identity
    /\ call.out = DeltaScale(ROne, call.delta.pos)
    /\ call.applied = this

\* x is taken from the operand of smaller magnitude: sx of magnitude ms or
\* ox of magnitude mo.
FromSmaller(x, sx, ms, ox, mo) ==
    /\ RLt(ms, mo) => x = sx
    /\ RLt(mo, ms) => x = ox
    /\ x \in {sx, ox}
Incomparable(a, b) == a.type # b.type /\ a.type # "Frame" /\ b.type # "Frame"

\* C15: minimum(Frame, x) and minimum(x, Frame) are Some(x); minimum(a, b) is
\* None exactly when a and b are of different variants and neither is Frame;
\* for two operands of the same variant other than Frame it is Some delta of
\* that variant with each of pitch, yaw, rot, vec.x, vec.y, vec.z and rat
\* taken from the operand of smaller magnitude (angle, |vec| per axis,
\* |rat - 1|).
C15_Minimum ==
    call.op = "minimum"
    => LET a == call.self
           b == call.other
           m == call.out
       IN  /\ a = DeltaFrame => m = b
           /\ b = DeltaFrame => m = a
           /\ m = None <=> Incomparable(a, b)
           /\ (a.type = b.type /\ a.type # "Frame")
              => /\ m # None
                 /\ m.type = a.type
                 /\ CASE a.type = "First" ->
                           /\ FromSmaller(R(m.pitch), R(a.pitch), RAbs(R(a.pitch)),
                                          R(b.pitch), RAbs(R(b.pitch)))
                           /\ FromSmaller(R(m.yaw), R(a.yaw), RAbs(R(a.yaw)),
                                          R(b.yaw), RAbs(R(b.yaw)))
                      [] a.type = "Orbit" ->
                           FromSmaller(m.rot, a.rot, RotAngle(a.rot), b.rot, RotAngle(b.rot))
                      [] a.type = "Slide" ->
                           \A i \in 1..3 :
                              FromSmaller(m.vec[i], a.vec[i], RAbs(a.vec[i]),
                                          b.vec[i], RAbs(b.vec[i]))
                      [] a.type = "Scale" ->
                           FromSmaller(m.rat, a.rat, RAbs(RSub(a.rat, ROne)),
                                       b.rat, RAbs(RSub(b.rat, ROne)))

C15_Witness ==
    /\ call.op = "minimum"
    /\ call.self = DeltaSlide(V(1, -2, 0))
    /\ call.other = DeltaSlide(V(-2, 0, 0))
    /\ call.out = DeltaSlide(V(1, 0, 0))

\* The new target lies on the line of sight of the frame f, in front of its
\* eye or at it.
OnLineOfSight(f, target) ==
    \E k \in 0..(3 * MaxTarget) : target = VSub(Eye(f), VScale(RollAxis(f), R(k)))

\* C16: after f.set_target(t) the eye position and the eye orientation are
\* those before the call, the target is t and the distance is |t - eye|.
C16_SetTargetKeepsEye ==
    call.op = "set_target"
    => /\ Eye(this) = Eye(call.frame)
       /\ this.rot = call.frame.rot
       /\ Target(this) = call.target
       /\ Distance(this) = Norm(VSub(call.target, Eye(call.frame)))

\* C16, the fields: set_target keeps the rotation, stores the target and the
\* distance of the target from the eye before the call.
C16_SetTargetFields ==
    call.op = "set_target"
    => /\ this.rot = call.frame.rot
       /\ Target(this) = call.target
       /\ Distance(this) = Norm(VSub(call.target, Eye(call.frame)))

\* C16, the eye: it stays where it was exactly when the new target is on the
\* line of sight.
C16_EyeKeptOnLineOfSight ==
    call.op = "set_target"
    => (Eye(this) = Eye(call.frame) <=> OnLineOfSight(call.frame, call.target))

\* C17: f.inverse_view() equals f.view().inverse(): composing the two in
\* either order gives the identity, and inverse_view maps f.eye() to the
\* origin of camera space.
C17_InverseViewInvertsView ==
    call.op = "view"
    => /\ call.inverse_view = IsoInverse(call.view)
       /\ IsoMul(call.inverse_view, call.view) = IsoIdentity
       /\ IsoMul(call.view, call.inverse_view) = IsoIdentity
       /\ TransformPoint(call.inverse_view, Eye(this)) = Origin

C17_Witness ==
    /\ call.op = "view"
    /\ this.rot = RotX
    /\ this.pos = V(1, 0, 0)
    /\ this.zat = R(5)
    /\ call.view.trans = V(1, -5, 0)
    /\ call.inverse_view.trans # VNeg(call.view.trans)

\* C18: for every unit normal n and signed distance d, Plane::new(n, d) has
\* distance() = d and bias = -d, project_point(origin) = n * d, and every
\* projected point lies on the plane, so that projecting it again leaves it
\* where it is.
C18_PlaneSignConvention ==
    call.op = "project_point"
    => /\ PlaneDistance(call.plane) = call.distance
       /\ call.plane.bias = RNeg(call.distance)
       /\ ProjectPoint(call.plane, Origin) = VScale(call.normal, call.distance)
       /\ DistanceFrom(call.plane, call.out) = RZero
       /\ call.again = call.out

\* The example of the doc: the y-axis and 5 project the origin to (0, 5, 0).
C18_Witness ==
    /\ call.op = "project_point"
    /\ call.normal = YAxis
    /\ call.distance = R(5)
    /\ call.point = Origin
    /\ call.out = V(0, 5, 0)
    /\ call.plane.bias = R(-5)

RECURSIVE SumPoints(_, _)
SumPoints(points, i) ==
    IF i = 0 THEN <<RZero, RZero>>
    ELSE <<RAdd(SumPoints(points, i - 1)[1], points[i][1]),
           RAdd(SumPoints(points, i - 1)[2], points[i][2])>>
\* The tap of the fingers reported at the given points.
TapOf(points) ==
    [num |-> Len(points),
     pos |-> <<RDiv(SumPoints(points, Len(points))[1], R(Len(points))),
               RDiv(SumPoints(points, Len(points))[2], R(Len(points)))>>]
\* Fingers were reported once each from the empty Touch on and have been
\* discarded since, one by one, by the last call too.
TapDiscard == event.op = "discard" /\ event.seq.phase \in {"up", "done"}

\* C20: from an empty Touch, if n <= 10 distinct fingers are each reported
\* once by compute, with any argument mvs, and then discarded, every discard
\* but the last returns None and the last returns Some((n, c)) with c the
\* centroid of the n positions.
C20_TapRecognised ==
    TapDiscard
    => event.ret = IF event.seq.phase = "done" THEN TapOf(event.seq.points) ELSE None

\* C20, as long as max + mvs * max fits usize in every report.
C20_TapWithoutOverflow ==
    (TapDiscard /\ ~event.seq.wrapped)
    => event.ret = IF event.seq.phase = "done" THEN TapOf(event.seq.points) ELSE None

(***************************************************************************)
(* Further properties of Clamp::compute and of the Bound probes.           *)
(***************************************************************************)
\* The plane the target probe reports for the unmodified First delta is not
\* orthogonal to the motion of the target: the displacement of the target
\* has a component along the plane.
FirstExceedsObliquely ==
    /\ delta.type = "First"
    /\ ProbeTarget(clamp, Tentative) # None
    /\ ProjectVector(PlaneNew(ProbeTarget(clamp, Tentative).normal, RZero),
                     VSub(Target(Tentative), Target(frame))) # Origin

\* C21 as claimed: a First delta whose tentative target exceeds a target
\* boundary plane non-orthogonally is clamped to a First delta with the same
\* yaw_axis, not to the identity delta.
C21_FirstGlides ==
    (Done /\ FirstExceedsObliquely)
    => /\ ret # None
       /\ ret.delta.type = "First"
       /\ ret.delta.yaw_axis = delta.yaw_axis

\* C21, what the First branch does: any violation of the target probe stops
\* the delta entirely, and the frame stays what it was.
C21_FirstFullStop ==
    (Done /\ delta.type = "First" /\ ProbeTarget(clamp, Tentative) # None)
    => /\ ret # None
       /\ ret.delta = DeltaFrame
       /\ Transform(ret.delta, frame) = frame

C21_Witness ==
    /\ Done
    /\ clamp = BoundTargetBox
    /\ frame = [pos |-> Origin, rot |-> Identity, zat |-> R(5)]
    /\ delta = DeltaFirst(0, 1, YAxis)
    /\ FirstExceedsObliquely
    /\ ret = Some(DeltaFrame, 1)

\* The bound-local position of a world-space point.
LocalPoint(c, p) == InverseTransformPoint(c.transform, p)
\* A Bound whose only finite limits are a target box, under any transform.
IsTransformedTargetBox(c) ==
    /\ c.kind = "Bound"
    /\ IsTargetBoxOnly([c EXCEPT !.transform = BoundDefault.transform])
\* The face of the target box whose plane the target probe reports for p.
ReportedFaces(c, plane, p) ==
    {face \in ExceededFaces(c, p) :
        plane = PlaneNew(Axes[face[1]], FaceCoord(c, face))}
\* A Slide delta whose tentative target exceeds the target box of a Bound.
SlideExceedsBox ==
    /\ Done
    /\ IsTransformedTargetBox(clamp)
    /\ delta.type = "Slide"
    /\ ProbeTarget(clamp, Tentative) # None

\* C22 as claimed: for a Bound under any transform, projecting the
\* world-space target onto the plane Bound::target returns gives a position
\* whose bound-local coordinate lies on the exceeded face, and the Slide is
\* clamped to one whose frame passes the probes.
C22_PlanesInWorldSpace ==
    SlideExceedsBox
    => /\ \E face \in ReportedFaces(clamp, ProbeTarget(clamp, Tentative),
                                    LocalPoint(clamp, Target(Tentative))) :
            LocalPoint(clamp, ProjectPoint(ProbeTarget(clamp, Tentative),
                                           Target(Tentative)))[face[1]]
            = FaceCoord(clamp, face)
       /\ ret # None
       /\ Satisfies(clamp, Transform(ret.delta, frame))

\* C22, what the probe returns: a plane of the bound-local space.  The
\* bound-local target projected onto it lies on the exceeded face, and so
\* does the world-space target when the transform is the identity.
C22_PlanesInBoundSpace ==
    SlideExceedsBox
    => \E face \in ReportedFaces(clamp, ProbeTarget(clamp, Tentative),
                                 LocalPoint(clamp, Target(Tentative))) :
          /\ ProjectPoint(ProbeTarget(clamp, Tentative),
                          LocalPoint(clamp, Target(Tentative)))[face[1]]
             = FaceCoord(clamp, face)
          /\ clamp.transform = BoundDefault.transform
             => ProjectPoint(ProbeTarget(clamp, Tentative),
                             Target(Tentative))[face[1]]
                = FaceCoord(clamp, face)

\* A Slide within the translated box that is clamped although its target
\* stays inside the box, and not onto the face.
C22_Witness ==
    /\ SlideExceedsBox
    /\ clamp = BoundShifted
    /\ frame = [pos |-> V(1, 0, 0), rot |-> Identity, zat |-> R(5)]
    /\ delta = DeltaSlide(V(2, 0, 0))
    /\ ret = Some(DeltaSlide(Origin), 1)
    /\ LocalPoint(clamp, Transform(ret.delta, frame).pos)[1] # R(1)

\* The target probe and the eye probe pass.
PassesTargetAndEye(c, f) == ProbeTarget(c, f) = None /\ ProbeEye(c, f) = None
SlideOfBound == Done /\ clamp.kind = "Bound" /\ delta.type = "Slide"

\* C23 as claimed: for a Slide delta and any Bound, if compute returns None
\* the unmodified delta passes the target and the eye probe, and if it
\* returns Some((d, n)) with n < loops() then d passes both.
C23_NoneMeansNoViolation ==
    SlideOfBound
    => /\ ret = None => PassesTargetAndEye(clamp, Tentative)
       /\ (ret # None /\ ret.loops < Loops(clamp))
            => PassesTargetAndEye(clamp, Transform(ret.delta, frame))

\* C23, what holds: a return before the loop budget is spent (the last
\* revalidation found no violation) yields a delta, the unmodified one for
\* None, that passes both probes.
C23_EarlyReturnPasses ==
    (SlideOfBound /\ iters <= Loops(clamp))
    => PassesTargetAndEye(clamp, IF ret = None THEN Tentative
                                 ELSE Transform(ret.delta, frame))

\* The target limit pushes the delta back and the eye limit forth again
\* until the budget is spent: None is returned for a violating delta.
C23_Witness ==
    /\ SlideOfBound
    /\ clamp = BoundConflict
    /\ frame = [pos |-> Origin, rot |-> Identity, zat |-> R(5)]
    /\ delta = DeltaSlide(V(1, 0, 0))
    /\ iters = Loops(clamp) + 1
    /\ ret = None
    /\ ProbeTarget(clamp, Tentative) # None

\* C24 as claimed: one compute call executes the body of its revalidation
\* loop at most loops() times.
C24_AtMostLoopsIterations == iters <= Loops(clamp)

\* C24 amended: one compute call executes the body of its revalidation loop
\* at most loops() + 1 times; the counter it returns is the number of
\* executions that found a violation and were followed by another one, so
\* it is one less than the number of executions, and at most loops().
C24_AtMostLoopsPlusOne ==
    /\ iters <= Loops(clamp) + 1
    /\ loops <= Loops(clamp)
    /\ pc = "loop" => loops = iters
    /\ (Done /\ iters > 0) => loops = iters - 1
    /\ (Done /\ ret # None /\ iters > 0) => ret.loops = iters - 1

\* Every execution of the loop body of a First delta found a violation, and
\* the body ran once more than loops().
C24_Witness ==
    /\ Done
    /\ clamp = StubAll
    /\ delta.type = "First"
    /\ iters = Loops(clamp) + 1
    /\ ret = Some(DeltaFrame, Loops(clamp))

\* The frames one compute call hands to the target probe.
ProbedFrames == {frame, Tentative, Transform(min_delta, frame)}
\* The position of a face in the order x-min, x-max, y-min, y-max, z-min,
\* z-max.
FaceOrder(face) == 2 * face[1] - (IF face[2] = "min" THEN 1 ELSE 0)
\* Every bound-local coordinate of p is within its limits widened by the
\* hysteresis.
WithinHysteresis(c, p) ==
    \A i \in 1..3 : /\ RLe(RSub(c.min_target[i], c.hysteresis), p[i])
                    /\ RLe(p[i], RAdd(c.max_target[i], c.hysteresis))

\* C25: Bound::target returns None iff every bound-local coordinate of the
\* target is within [min_target - hysteresis, max_target + hysteresis], and
\* otherwise the plane of the first exceeded face in the order x-min, x-max,
\* y-min, y-max, z-min, z-max.
C25_TargetHysteresisAndOrder ==
    clamp.kind = "Bound"
    => \A f \in ProbedFrames :
         LET p == LocalPoint(clamp, Target(f))
             faces == ExceededFaces(clamp, p)
         IN  /\ BoundTarget(clamp, f) = None <=> WithinHysteresis(clamp, p)
             /\ BoundTarget(clamp, f) # None
                  => \E face \in faces :
                       /\ \A other \in faces : FaceOrder(face) <= FaceOrder(other)
                       /\ BoundTarget(clamp, f)
                          = PlaneNew(Axes[face[1]], FaceCoord(clamp, face))

\* A Slide that ends beyond the x-max face by exactly the hysteresis and on
\* the y-max face passes revalidation.
C25_Witness ==
    /\ Done
    /\ clamp = BoundLoose
    /\ frame = [pos |-> Origin, rot |-> Identity, zat |-> R(5)]
    /\ delta = DeltaSlide(V(2, 1, 0))
    /\ ~InsideBox(clamp, Tentative.pos)
    /\ WithinHysteresis(clamp, Tentative.pos)
    /\ BoundTarget(clamp, Tentative) = None
    /\ iters = 1
    /\ ret = None

\* The ratio the near-plane clamp replaces rat with: min_zat / old_zat.
NearRatio == Fl(RDiv(MinZat(scope), Distance(frame)))
\* A Scale delta below the near-plane minimum in object-inspection mode,
\* with an eye probe that passes both the delta and its replacement.
NearClamped ==
    /\ Done
    /\ NearLimited
    /\ ProbeEye(clamp, Tentative) = None
    /\ ProbeEye(clamp, Transform(DeltaScale(NearRatio, delta.pos), frame)) = None

\* C26 as claimed: the near-plane clamp replaces the Scale by one with the
\* ratio min_zat / old_zat and the same pivot, the resulting distance is
\* min_zat exactly, and the clamp settles in one revalidation; with
\* scope.scale() off no near-plane limit is applied.
C26_NearClampExact ==
    /\ NearClamped
       => /\ ret = Some(DeltaScale(NearRatio, delta.pos), 1)
          /\ Distance(Transform(ret.delta, frame)) = MinZat(scope)
    /\ (Done /\ delta.type = "Scale" /\ ~ScopeScale(scope)
        /\ ProbeEye(clamp, Tentative) = None) => ret = None

\* C26, what holds: the replacement has the ratio min_zat / old_zat as
\* rounded and the same pivot; it settles in one revalidation if the
\* rounded product old_zat * rat' is not below min_zat, and else every
\* revalidation finds it violated until the loop budget is spent; with
\* scope.scale() off no near-plane limit is applied.
C26_NearClampRounded ==
    /\ NearClamped
       => /\ ret # None
          /\ ret.delta = DeltaScale(NearRatio, delta.pos)
          /\ ret.loops = IF RLt(Fl(RMul(Distance(frame), NearRatio)), MinZat(scope))
                         THEN Loops(clamp) ELSE 1
    /\ (Done /\ delta.type = "Scale" /\ ~ScopeScale(scope)
        /\ ProbeEye(clamp, Tentative) = None) => ret = None

\* The ratio 27/16 / 13 rounds to 33/256 and 13 * 33/256 to 107/64, below
\* min_zat = 27/16: the clamp does not settle.
C26_Witness ==
    /\ NearClamped
    /\ clamp = BoundDefault
    /\ scope = ScopeNear
    /\ frame = [pos |-> Origin, rot |-> Identity, zat |-> R(13)]
    /\ delta = DeltaScale(RNorm(1, 8), Origin)
    /\ iters = Loops(clamp) + 1
    /\ ret = Some(DeltaScale(RNorm(33, 256), Origin), Loops(clamp))
    /\ RLt(Distance(Transform(ret.delta, frame)), MinZat(scope))

(***************************************************************************)
(* Further properties of the Orbit gesture.                                *)
(***************************************************************************)
\* The cache holds the centred, clamped position of the last compute call.
CacheIsLastSample == vec # None /\ RayTimesLen(vec.ray, vec.len2) = LastCentred
\* A compute that follows a compute without a discard in between, as the
\* first compute of a gesture does when the gesture before was not
\* discarded.
StaleCompute == last.op = "compute" /\ last.after = "compute"

\* C27 as claimed: after every compute the cache holds the normalised
\* clamped position of that call, only discard empties the cache, and a
\* compute that finds the sample of an undiscarded gesture cached returns
\* Some when the positions differ.
C27_StaleSampleIsSome ==
    /\ last.op = "compute" => CacheIsLastSample
    /\ vec = None => last.op \in {"new", "discard"}
    /\ (StaleCompute /\ LastCentred # CachedCentred) => rot # None

\* C27, what holds: after every compute, whether it returned Some or None,
\* the cache holds the normalised clamped position of that call; only
\* discard empties the cache; a compute that follows a compute is measured
\* against the sample of the call before, and returns Some when the
\* positions differ unless that sample is the exact screen centre.
C27_CacheInvariant ==
    /\ last.op = "compute" => CacheIsLastSample
    /\ vec = None => last.op \in {"new", "discard"}
    /\ StaleCompute => last.old # None
    /\ (StaleCompute /\ LastCentred # CachedCentred /\ CachedCentred # Origin)
         => rot # None
    /\ (StaleCompute /\ CachedCentred = Origin) => rot = None

\* A compute that finds the exact centre cached from the call before and
\* returns None for a different position, caching it.
C27_Witness ==
    /\ StaleCompute
    /\ CachedCentred = Origin
    /\ LastCentred # Origin
    /\ rot = None
    /\ CacheIsLastSample

(***************************************************************************)
(* Further properties of Frame and of Delta::transform.                    *)
(***************************************************************************)
\* The world-space position of a camera-space point.
WorldOf(f, p) == VAdd(Target(f), Rotate(f.rot, p))

\* C28: local_orbit_around(rot, p) leaves the world-space position of the
\* pivot p, taken with the rotation of the frame before and after the call,
\* and the eye-target distance unchanged; with p the origin the target
\* itself is unchanged.
C28_PivotPreserved ==
    call.op = "local_orbit_around"
    => /\ WorldOf(this, call.pos) = WorldOf(call.frame, call.pos)
       /\ Distance(this) = Distance(call.frame)
       /\ this.rot = RotMul(call.frame.rot, call.rot)
       /\ call.pos = Origin => Target(this) = Target(call.frame)

\* An orbit about an off-origin pivot that moves the target and turns the
\* frame.
C28_Witness ==
    /\ call.op = "local_orbit_around"
    /\ call.pos = V(1, 2, 3)
    /\ call.rot = FromAxisAngle(XAxis, 1)
    /\ call.frame.rot = RotY
    /\ Target(this) # Target(call.frame)
    /\ WorldOf(this, call.pos) = WorldOf(call.frame, call.pos)

\* C29: Delta::transform of a Slide changes only the target position, of an
\* Orbit with origin pivot only the rotation, of a Scale with origin pivot
\* only the distance, multiplying it by rat; that of a First leaves the eye
\* position and the eye-target distance unchanged.
C29_FrameEffects ==
    call.op = "transform"
    => LET d == call.delta
           f == call.frame
           out == call.out
       IN  /\ d.type = "Slide"
                => /\ out = [f EXCEPT !.pos = out.pos]
                   /\ out.pos = VAdd(f.pos, Rotate(f.rot, d.vec))
           /\ (d.type = "Orbit" /\ d.pos = Origin)
                => /\ out = [f EXCEPT !.rot = out.rot]
                   /\ out.rot = RotMul(f.rot, d.rot)
           /\ (d.type = "Scale" /\ d.pos = Origin)
                => /\ out = [f EXCEPT !.zat = out.zat]
                   /\ out.zat = RMul(f.zat, d.rat)
           /\ d.type = "First"
                => /\ Eye(out) = Eye(f)
                   /\ Distance(out) = Distance(f)

\* A First delta that moves the target and turns the frame about the eye.
C29_Witness ==
    /\ call.op = "transform"
    /\ call.delta = DeltaFirst(1, 1, YAxis)
    /\ call.frame.zat = R(5)
    /\ Target(call.out) # Target(call.frame)
    /\ call.out.rot # call.frame.rot
    /\ Eye(call.out) = Eye(call.frame)

(***************************************************************************)
(* Further properties of Touch.                                            *)
(***************************************************************************)
\* C30: once a compute has cancelled the potential tap, the tap stays
\* cancelled (no potential tap, the move counter at usize::MAX) through
\* every later compute and discard while a finger is left; every discard
\* since, the one that removes the last finger included, returns None; and
\* the cancellation ends only with a discard that leaves no finger and the
\* move counter at 0.
C30_CancelledStaysCancelled ==
    /\ event.cancelled
         => (touch.pos # <<>> /\ touch.tap = None /\ touch.mvs = UsizeMax)
    /\ (event.op = "discard" /\ event.was)
         => /\ event.ret = None
            /\ event.tap = None
            /\ ~event.cancelled => touch = TouchDefault
    /\ (event.op = "discard" /\ event.ret # None) => ~event.was

\* The discard of the last finger after the tap was cancelled.
C30_Witness ==
    /\ event.op = "discard"
    /\ event.was
    /\ event.known
    /\ event.fingers = 1
    /\ event.ret = None
    /\ ~event.cancelled
    /\ touch = TouchDefault

====
